---- MODULE Spec2Model ----
(***************************************************************************)
(* The A/B experiment engine of chatbot-app/backend/data                   *)
(* (services/ab_testing_service.py, class ABTestingService).               *)
(*                                                                         *)
(* All state of the engine lives in two stores shared by every request     *)
(* handler and every scheduler task: the PostgreSQL tables ab_experiments, *)
(* ab_assignments, ab_events, ab_results and the Redis hashes.  Lifecycle  *)
(* handlers (create, start, pause, resume, complete, delete) are one       *)
(* action each.  The paths that run concurrently against the shared        *)
(* stores -- assign_user_to_variant, track_event and the scheduler loop -- *)
(* are one action per store call, so that calls of different requests      *)
(* interleave between store calls.                                         *)
(*                                                                         *)
(* Column values are read back as they were written: the JSON columns as   *)
(* the text json.dumps produced, end_date as the datetime the INSERT was   *)
(* given.  A statement that the database or the driver rejects raises in   *)
(* the call that issued it and writes nothing; the transaction state of    *)
(* the shared connection is not modelled, every call finds the connection  *)
(* usable.  Weights are in thousandths (1000 is the weight 1.0), so the    *)
(* validation tolerance 0.01 is 10.                                        *)
(***************************************************************************)
EXTENDS Integers, Sequences, FiniteSets, Bags, TLC

\* ------------------------------------------------------------------ bounds
MaxTasks == 2            \* scheduler tasks alive at the same time
MaxTime == 1             \* the clock runs 0..MaxTime
NumAssignCallers == 2    \* assign_user_to_variant calls, one per caller
SeriesLength == 5        \* events recorded one after the other for a variant

\* -------------------------------------------------------- program constants
Unit == 1000             \* the float 1.0, in thousandths
WeightTolerance == 10    \* 0.01
MinVariants == 2
SignificanceLevel == 50  \* 0.05

\* Experiments share no state (every table row and Redis key carries its
\* experiment id), so one experiment id is modelled.
ExpIds == {"e1"}
NoId == "none"
TaskIds == 1..MaxTasks
Users == {"u1"}
AssignCallers == 1..NumAssignCallers
\* track_event calls, one per caller
EventCallers == {"t1", "t2"}
EventValues == {1, 2}
EventNames == {"conversion", "experiment_completed"}
VariantNames == {"A", "B"}

NoDate == -1             \* end_date IS NULL
NoVariant == "none"

\* class ExperimentStatus
DRAFT == "draft"
RUNNING == "running"
PAUSED == "paused"
COMPLETED == "completed"
CANCELLED == "cancelled"
ExperimentStatus == {DRAFT, RUNNING, PAUSED, COMPLETED, CANCELLED}

\* class MetricType
NUMERICAL == "numerical"
CATEGORICAL == "categorical"
BINARY == "binary"
RATE == "rate"
MetricType == {NUMERICAL, CATEGORICAL, BINARY, RATE}

Variant(n, w) == [name |-> n, weight |-> w]
Metric(n, t, p) == [name |-> n, type |-> t, is_primary |-> p]

\* The experiment_data payloads create_experiment is called with.
VariantLists ==
    { <<>>,
      << Variant("A", 1000) >>,
      << Variant("A", 500), Variant("B", 500) >>,
      << Variant("A", 300), Variant("B", 705) >>,
      << Variant("A", 500), Variant("B", 520) >>,
      << Variant("A", 400), Variant("B", 400) >> }
MetricLists ==
    { <<>>,
      << Metric("revenue", NUMERICAL, TRUE) >>,
      << Metric("conversion", BINARY, TRUE) >>,
      << Metric("plan", CATEGORICAL, FALSE) >> }
ExperimentData ==
    [ has_required_fields : BOOLEAN,
      variants : VariantLists,
      metrics : MetricLists,
      end_date : {NoDate, 1} ]

VARIABLES
    experiments,   \* ab_experiments: id -> [status, variants, metrics, end_date]
    unusedIds,     \* the ids uuid.uuid4() has not returned yet
    assignments,   \* ab_assignments: bag of [experiment_id, user_id, variant_name, completed]
    events,        \* ab_events: bag of [experiment_id, user_id, variant_name, event_name]
    results,       \* ab_results: set of rows [experiment_id, variant_name, metric_name, ..]
    metricStore,   \* Redis hashes experiment:{id}:metrics:{variant}:{metric}
    statsStore,    \* Redis hashes experiment:{id}:stats
    assignCache,   \* Redis keys assignment:{id}:{user}
    tasks,         \* scheduler tasks: TaskIds -> task record
    now,           \* datetime.now()
    reply,         \* what the last lifecycle handler returned
    assignCall,    \* the assign_user_to_variant call of each caller
    eventCall      \* the track_event call of each caller

repoVars == <<experiments, unusedIds, assignments, events, results>>
redisVars == <<metricStore, statsStore, assignCache>>
vars == <<experiments, unusedIds, assignments, events, results, metricStore,
          statsStore, assignCache, tasks, now, reply, assignCall, eventCall>>

\* ---------------------------------------------------------------- helpers
RECURSIVE SumWeights(_)
SumWeights(variants) ==
    IF variants = <<>> THEN 0
    ELSE Head(variants).weight + SumWeights(Tail(variants))

Abs(x) == IF x < 0 THEN -x ELSE x

Range(s) == { s[i] : i \in DOMAIN s }

Exists(id) == id \in DOMAIN experiments

\* _get_experiment: the row, or None
StatusOf(id) == IF Exists(id) THEN experiments[id].status ELSE "none"

MetricKeys(id) ==
    { <<id, v.name, m.name>> : v \in Range(experiments[id].variants),
                               m \in Range(experiments[id].metrics) }

ZeroCounters == [sum |-> 0, count |-> 0, squared_sum |-> 0]

\* a field of a Redis hash, 0 when the hash or the field is missing
\* (hget(..) or 0, metric_data.get(.., 0))
Field(hash, field) == IF field \in DOMAIN hash THEN hash[field] ELSE 0

HGet(key, field) ==
    IF key \in DOMAIN metricStore THEN Field(metricStore[key], field) ELSE 0

\* redis hset: creates the hash and the field when missing
HSet(key, field, value) ==
    LET old == IF key \in DOMAIN metricStore THEN metricStore[key] ELSE <<>>
        new == [f \in DOMAIN old \cup {field} |-> IF f = field THEN value ELSE old[f]]
    IN  [k \in DOMAIN metricStore \cup {key} |-> IF k = key THEN new ELSE metricStore[k]]

Restrict(f, S) == [x \in S |-> f[x]]

NoTask == [pc |-> "free", experiment_id |-> NoId, end_date |-> NoDate]

FreeTasks == { t \in TaskIds : tasks[t].pc = "free" }

\* asyncio.create_task(self._start_experiment_scheduler(experiment_id))
CreateTask(id) ==
    LET t == CHOOSE x \in FreeTasks : \A y \in FreeTasks : x <= y
    IN  [tasks EXCEPT ![t] = [pc |-> "top", experiment_id |-> id, end_date |-> NoDate]]

Reply(op, id, ok) == [op |-> op, experiment_id |-> id, ok |-> ok]

IdleAssign == [pc |-> "idle", experiment_id |-> NoId, user_id |-> "", variant_name |-> NoVariant,
               status |-> "none"]
IdleEvent == [pc |-> "idle", experiment_id |-> NoId, user_id |-> "", variant_name |-> NoVariant,
              event_name |-> "", event_value |-> 0, metrics |-> <<>>, m |-> 0,
              current_sum |-> 0, current_count |-> 0, current_squared_sum |-> 0,
              status |-> "none"]

Init ==
    /\ experiments = <<>>
    /\ unusedIds = ExpIds
    /\ assignments = EmptyBag
    /\ events = EmptyBag
    /\ results = {}
    /\ metricStore = <<>>
    /\ statsStore = <<>>
    /\ assignCache = <<>>
    /\ tasks = [t \in TaskIds |-> NoTask]
    /\ now = 0
    /\ reply = Reply("none", NoId, TRUE)
    /\ assignCall = [c \in AssignCallers |-> IdleAssign]
    /\ eventCall = [c \in EventCallers |-> IdleEvent]

\* ------------------------------------------------------ lifecycle manager
\* the validation without the weight-sum check of lines 279-281
ValidateWithoutWeights(data) ==
    /\ data.has_required_fields
    /\ Len(data.variants) >= MinVariants
    /\ Len(data.metrics) # 0

\* _validate_experiment_data
ValidateExperimentData(data) ==
    /\ data.has_required_fields
    /\ Len(data.variants) >= MinVariants
    /\ ~ (Abs(SumWeights(data.variants) - Unit) > WeightTolerance)
    /\ Len(data.metrics) # 0

\* _initialize_experiment_data: the stats hash and one zeroed hash per
\* (variant, metric) of the experiment
InitializeStats(id, variants) ==
    id :> [f \in { <<k, v.name>> : k \in {"assignments", "completions"},
                                   v \in Range(variants) } |-> 0]

InitializeMetrics(id, variants, metrics) ==
    [k \in { <<id, v.name, m.name>> : v \in Range(variants), m \in Range(metrics) }
       |-> ZeroCounters]

\* create_experiment
CreateExperiment(data) ==
    /\ unusedIds # {}
    /\ IF ValidateExperimentData(data)
       THEN LET id == CHOOSE x \in unusedIds : TRUE
            IN  /\ experiments' = experiments @@
                       (id :> [status |-> DRAFT, variants |-> data.variants,
                               metrics |-> data.metrics, end_date |-> data.end_date])
                /\ unusedIds' = unusedIds \ {id}
                /\ statsStore' = statsStore @@ InitializeStats(id, data.variants)
                /\ metricStore' = InitializeMetrics(id, data.variants, data.metrics)
                                     @@ metricStore
                /\ reply' = Reply("create", id, TRUE)
       ELSE /\ reply' = Reply("create", NoId, FALSE)
            /\ UNCHANGED <<experiments, unusedIds, statsStore, metricStore>>
    /\ UNCHANGED <<assignments, events, results, assignCache, tasks, now,
                   assignCall, eventCall>>

\* a start check that only rejects running experiments
StartUnlessRunning(id) == Exists(id) /\ experiments[id].status # RUNNING

\* start_experiment: the state check of lines 338-343
StartAllowed(id) == Exists(id) /\ experiments[id].status = DRAFT

\* start_experiment
StartExperiment(id) ==
    /\ IF StartAllowed(id)
       THEN /\ FreeTasks # {}
            /\ experiments' = [experiments EXCEPT ![id].status = RUNNING]
            /\ tasks' = CreateTask(id)
            /\ reply' = Reply("start", id, TRUE)
       ELSE /\ reply' = Reply("start", id, FALSE)
            /\ UNCHANGED <<experiments, tasks>>
    /\ UNCHANGED <<unusedIds, assignments, events, results, redisVars, now,
                   assignCall, eventCall>>

\* a pause that starts the counters of the experiment afresh
PauseClearingCounters(id) ==
    /\ IF StatusOf(id) = RUNNING
       THEN /\ experiments' = [experiments EXCEPT ![id].status = PAUSED]
            /\ metricStore' = [k \in DOMAIN metricStore |->
                                 IF k[1] = id THEN ZeroCounters ELSE metricStore[k]]
            /\ reply' = Reply("pause", id, TRUE)
       ELSE /\ reply' = Reply("pause", id, FALSE)
            /\ UNCHANGED <<experiments, metricStore>>
    /\ UNCHANGED <<unusedIds, assignments, events, results, statsStore, assignCache,
                   tasks, now, assignCall, eventCall>>

\* pause_experiment
PauseExperiment(id) ==
    /\ IF StatusOf(id) = RUNNING
       THEN /\ experiments' = [experiments EXCEPT ![id].status = PAUSED]
            /\ reply' = Reply("pause", id, TRUE)
       ELSE /\ reply' = Reply("pause", id, FALSE)
            /\ UNCHANGED experiments
    /\ UNCHANGED <<unusedIds, assignments, events, results, redisVars, tasks, now,
                   assignCall, eventCall>>

\* a resume check that accepts every experiment that is not running
ResumeFromAnyStop(id) == Exists(id) /\ experiments[id].status # RUNNING

\* resume_experiment: the state check of lines 1067-1072
ResumeAllowed(id) == Exists(id) /\ experiments[id].status = PAUSED

\* resume_experiment
ResumeExperiment(id) ==
    /\ IF ResumeAllowed(id)
       THEN /\ FreeTasks # {}
            /\ experiments' = [experiments EXCEPT ![id].status = RUNNING]
            /\ tasks' = CreateTask(id)
            /\ reply' = Reply("resume", id, TRUE)
       ELSE /\ reply' = Reply("resume", id, FALSE)
            /\ UNCHANGED <<experiments, tasks>>
    /\ UNCHANGED <<unusedIds, assignments, events, results, redisVars, now,
                   assignCall, eventCall>>

\* _complete_experiment: UPDATE ab_experiments SET status = 'completed' WHERE id = ..
SetCompleted(id) ==
    IF Exists(id) THEN [experiments EXCEPT ![id].status = COMPLETED] ELSE experiments

\* complete_experiment
CompleteExperiment(id) ==
    /\ experiments' = SetCompleted(id)
    /\ reply' = Reply("complete", id, TRUE)
    /\ UNCHANGED <<unusedIds, assignments, events, results, redisVars, tasks, now,
                   assignCall, eventCall>>

\* _ensure_tables_exist: the unique indexes of each table are its primary
\* key and nothing else
UniqueIndexes ==
    [ab_experiments |-> {<<"id">>}, ab_assignments |-> {<<"id">>},
     ab_events |-> {<<"id">>}, ab_results |-> {<<"id">>}]

\* len(str(uuid.uuid4()))
UuidLength == 36

\* delete_experiment: the last DELETE has one placeholder and is given
\* (experiment_id), which is the string and not a 1-tuple; the driver takes a
\* string as the sequence of its characters and raises TypeError unless there
\* are as many of them as placeholders
DeleteRowPlaceholders == 1
DeleteRowAccepted == UuidLength = DeleteRowPlaceholders

NotOf(bag, id) ==
    LET keep == { r \in BagToSet(bag) : r.experiment_id # id }
    IN  [r \in keep |-> bag[r]]

\* delete_experiment: the DELETEs are one transaction, committed after the
\* last of them, and the Redis keys experiment:{id}:* are cleared after the
\* commit; an exception rolls the transaction back and is raised again
DeleteExperiment(id) ==
    /\ IF DeleteRowAccepted
       THEN /\ results' = { r \in results : r.experiment_id # id }
            /\ events' = NotOf(events, id)
            /\ assignments' = NotOf(assignments, id)
            /\ experiments' = Restrict(experiments, DOMAIN experiments \ {id})
            /\ metricStore' = Restrict(metricStore,
                                       { k \in DOMAIN metricStore : k[1] # id })
            /\ statsStore' = Restrict(statsStore, DOMAIN statsStore \ {id})
            /\ reply' = Reply("delete", id, TRUE)
       ELSE /\ reply' = Reply("delete", id, FALSE)
            /\ UNCHANGED <<results, events, assignments, experiments, metricStore,
                           statsStore>>
    /\ UNCHANGED <<unusedIds, assignCache, tasks, now, assignCall, eventCall>>

\* datetime.now() advances
AdvanceClock ==
    /\ now < MaxTime
    /\ now' = now + 1
    /\ UNCHANGED <<repoVars, redisVars, tasks, reply, assignCall, eventCall>>

\* ------------------------------------------------------------- scheduler
\* _calculate_metric_value
CalculateMetricValue(metric_data, metric_type) ==
    IF Field(metric_data, "count") = 0 THEN 0
    ELSE IF metric_type \in {NUMERICAL, BINARY, RATE}
         THEN (Field(metric_data, "sum") * Unit) \div Field(metric_data, "count")
         ELSE Field(metric_data, "count") * Unit

\* _get_metric_type
GetMetricType(id, metric_name) ==
    LET ms == { m \in Range(experiments[id].metrics) : m.name = metric_name }
    IN  IF ms = {} THEN NUMERICAL ELSE (CHOOSE m \in ms : TRUE).type

\* NULL in a column of ab_results
NoValue == -1

\* _process_metric: the INSERT names the conflict target (experiment_id,
\* variant_name, metric_name); PostgreSQL rejects the statement when no unique
\* index of ab_results covers exactly these columns
ConflictTargetAccepted ==
    <<"experiment_id", "variant_name", "metric_name">> \in UniqueIndexes.ab_results

\* the ab_results rows of the key k = <<experiment, variant, metric>>
RowsOf(rows, k) ==
    { r \in rows : <<r.experiment_id, r.variant_name, r.metric_name>> = k }

\* ORDER BY calculated_at DESC LIMIT 1: a row of the key that no other row of
\* the key is newer than
LatestRows(rows, k) ==
    { r \in RowsOf(rows, k) : \A o \in RowsOf(rows, k) : o.calculated_at <= r.calculated_at }

\* _process_metric, for every metric: one ab_results row per (variant, metric)
\* whose Redis hash is not empty; on a conflict the row of the key gets the
\* new metric_value, sample_size and calculated_at and keeps its p_value and
\* statistical_significance; a rejected INSERT is logged (line 457) and
\* writes nothing
ProcessMetrics(id) ==
    LET keys == IF Exists(id)
                THEN { k \in MetricKeys(id) \cap DOMAIN metricStore :
                         DOMAIN metricStore[k] # {} }
                ELSE {}
        fresh(k) == [experiment_id |-> k[1], variant_name |-> k[2], metric_name |-> k[3],
                     metric_value |-> CalculateMetricValue(metricStore[k],
                                                           GetMetricType(id, k[3])),
                     sample_size |-> Field(metricStore[k], "count"),
                     calculated_at |-> now,
                     p_value |-> NoValue,
                     statistical_significance |-> FALSE]
        upsert(k) == IF RowsOf(results, k) = {} THEN {fresh(k)}
                     ELSE { [r EXCEPT !.metric_value = fresh(k).metric_value,
                                      !.sample_size = fresh(k).sample_size,
                                      !.calculated_at = now] : r \in RowsOf(results, k) }
    IN  IF ConflictTargetAccepted
        THEN { r \in results : <<r.experiment_id, r.variant_name, r.metric_name>> \notin keys }
                \cup UNION { upsert(k) : k \in keys }
        ELSE results

\* _calculate_t_test (line 612) and _calculate_anova (line 648): the variance
\* of a group, whatever its counters, is the literal 0
VarianceUsed(metric_data) == 0

\* _calculate_t_test: the pooled standard deviation is computed from zero
\* variances, so the standard error is 0, t_stat is 0 and
\* p = 2 * (1 - _t_cdf(0, df)) = 1.0; a division by zero (n1 + n2 = 2,
\* n1 = 0 or n2 = 0) returns (0.0, 1.0) as well
CalculateTTest(mean1, n1, mean2, n2) ==
    IF n1 + n2 - 2 = 0 \/ n1 = 0 \/ n2 = 0
    THEN [statistic |-> 0, p_value |-> Unit]
    ELSE [statistic |-> 0, p_value |-> 2 * (Unit - Unit \div 2)]

\* _calculate_anova: the within-group loop unpacks the two-key dicts of
\* variant_data.values() and fails, so the except branch returns (0.0, 1.0)
CalculateAnova(variant_data) == [statistic |-> 0, p_value |-> Unit]

\* _perform_statistical_test
PerformStatisticalTest(variant_data) ==
    LET names == DOMAIN variant_data
        test == IF Cardinality(names) = 2
                THEN LET a == CHOOSE x \in names : TRUE
                         b == CHOOSE x \in names : x # a
                     IN  CalculateTTest(variant_data[a].value, variant_data[a].sample_size,
                                        variant_data[b].value, variant_data[b].sample_size)
                ELSE CalculateAnova(variant_data)
    IN  [v \in names |-> [p_value |-> test.p_value,
                          significant |-> test.p_value < SignificanceLevel]]

\* _check_metric_significance: the UPDATE of lines 542-547 ends with ORDER BY
\* calculated_at DESC LIMIT 1; the UPDATE of PostgreSQL has the clauses below
\* and rejects any other
UpdateClauses == {"SET", "FROM", "WHERE", "RETURNING"}
SignificanceUpdate == <<"SET", "WHERE", "ORDER BY", "LIMIT">>
SignificanceUpdateAccepted == Range(SignificanceUpdate) \subseteq UpdateClauses

\* _check_metric_significance, lines 516-536: the value and sample_size of
\* the latest row of every variant that has a row for the metric
VariantData(res, id, metric_name) ==
    LET names == { v.name : v \in Range(experiments[id].variants) }
        have == { v \in names : RowsOf(res, <<id, v, metric_name>>) # {} }
        latest(v) == CHOOSE r \in LatestRows(res, <<id, v, metric_name>>) : TRUE
    IN  [v \in have |-> [value |-> latest(v).metric_value,
                         sample_size |-> latest(v).sample_size]]

\* _check_metric_significance, line 539: the test is run
TestRuns(variant_data) == Cardinality(DOMAIN variant_data) >= 2

\* _check_metric_significance, applied to the rows res: a rejected UPDATE is
\* logged (line 558) and writes nothing
CheckMetricSignificance(res, id, metric_name) ==
    LET variant_data == VariantData(res, id, metric_name)
        test == PerformStatisticalTest(variant_data)
        marked(r) == [r EXCEPT !.p_value = test[r.variant_name].p_value,
                               !.statistical_significance =
                                   test[r.variant_name].significant]
        target == UNION { LatestRows(res, <<id, v, metric_name>>) :
                            v \in DOMAIN variant_data }
    IN  IF TestRuns(variant_data) /\ SignificanceUpdateAccepted
        THEN (res \ target) \cup { marked(r) : r \in target }
        ELSE res

\* _check_statistical_significance: every primary metric in turn
RECURSIVE CheckStatisticalSignificance(_, _, _)
CheckStatisticalSignificance(res, id, metrics) ==
    IF metrics = <<>> THEN res
    ELSE CheckStatisticalSignificance(
             IF Head(metrics).is_primary
             THEN CheckMetricSignificance(res, id, Head(metrics).name) ELSE res,
             id, Tail(metrics))

\* _process_experiment_data
ProcessExperimentData(id) ==
    IF Exists(id)
    THEN CheckStatisticalSignificance(ProcessMetrics(id), id, experiments[id].metrics)
    ELSE results

\* _start_experiment_scheduler, loop top: re-read the experiment
SchedulerTop(t) ==
    /\ tasks[t].pc = "top"
    /\ LET id == tasks[t].experiment_id
       IN  IF StatusOf(id) = RUNNING
           THEN tasks' = [tasks EXCEPT ![t].pc = "process",
                                       ![t].end_date = experiments[id].end_date]
           ELSE tasks' = [tasks EXCEPT ![t] = NoTask]
    /\ UNCHANGED <<repoVars, redisVars, now, reply, assignCall, eventCall>>

\* _start_experiment_scheduler, loop top: the store is unavailable and
\* _get_experiment raises; the except branch of line 398 is outside the
\* loop, so the task ends
SchedulerTopFails(t) ==
    /\ tasks[t].pc = "top"
    /\ tasks' = [tasks EXCEPT ![t] = NoTask]
    /\ UNCHANGED <<repoVars, redisVars, now, reply, assignCall, eventCall>>

\* _start_experiment_scheduler: await self._process_experiment_data(..)
SchedulerProcess(t) ==
    /\ tasks[t].pc = "process"
    /\ results' = ProcessExperimentData(tasks[t].experiment_id)
    /\ tasks' = [tasks EXCEPT ![t].pc = "endcheck"]
    /\ UNCHANGED <<experiments, unusedIds, assignments, events, redisVars, now, reply,
                   assignCall, eventCall>>

\* datetime.fromisoformat(experiment['end_date']) takes a str and raises
\* TypeError for anything else; the end_date of the row is the datetime that
\* create_experiment built (line 224) and stored (line 246)
EndDateIsStr == FALSE

\* _start_experiment_scheduler: the end_date check of the experiment read at
\* the loop top: without an end_date the task sleeps; with one,
\* fromisoformat is evaluated, and either raises into the except branch of
\* line 398 that ends the task, or _complete_experiment and break, or sleep
SchedulerEndCheck(t) ==
    /\ tasks[t].pc = "endcheck"
    /\ IF tasks[t].end_date = NoDate
       THEN /\ tasks' = [tasks EXCEPT ![t].pc = "sleep"]
            /\ UNCHANGED experiments
       ELSE IF ~EndDateIsStr
       THEN /\ tasks' = [tasks EXCEPT ![t] = NoTask]
            /\ UNCHANGED experiments
       ELSE IF now >= tasks[t].end_date
       THEN /\ experiments' = SetCompleted(tasks[t].experiment_id)
            /\ tasks' = [tasks EXCEPT ![t] = NoTask]
       ELSE /\ tasks' = [tasks EXCEPT ![t].pc = "sleep"]
            /\ UNCHANGED experiments
    /\ UNCHANGED <<unusedIds, assignments, events, results, redisVars, now, reply,
                   assignCall, eventCall>>

\* _start_experiment_scheduler: asyncio.sleep(60) returns
SchedulerWake(t) ==
    /\ tasks[t].pc = "sleep"
    /\ tasks' = [tasks EXCEPT ![t].pc = "top"]
    /\ UNCHANGED <<repoVars, redisVars, now, reply, assignCall, eventCall>>

\* ------------------------------------------------------ assignment engine
otherAssignVars == <<experiments, unusedIds, events, results, metricStore, statsStore,
                     tasks, now, reply, eventCall>>

AssignmentRow(id, user, variant) ==
    [experiment_id |-> id, user_id |-> user, variant_name |-> variant, completed |-> FALSE]

\* _get_user_assignment: the rows of the pair with completed_at IS NULL
OpenAssignments(id, user) ==
    { r \in BagToSet(assignments) :
        r.experiment_id = id /\ r.user_id = user /\ ~r.completed }

\* _select_variant_by_weight: the cumulative weight of the first i variants
RECURSIVE CumulativeWeight(_, _)
CumulativeWeight(variants, i) ==
    IF i = 0 THEN 0 ELSE variants[i].weight + CumulativeWeight(variants, i - 1)

\* random.random() * current_sum, in half thousandths: every value of
\* [0, current_sum) next to a step of the ladder, and 0
DrawPoints(variants) ==
    LET total == CumulativeWeight(variants, Len(variants))
        near == UNION { { 2 * CumulativeWeight(variants, i) - 1,
                          2 * CumulativeWeight(variants, i),
                          2 * CumulativeWeight(variants, i) + 1 } : i \in DOMAIN variants }
    IN  { d \in near \cup {0} : d >= 0 /\ d < 2 * total }

\* a selection that takes the first variant whose cumulative weight is
\* greater than the draw
SelectAboveDraw(variants, random_value) ==
    LET hit == { i \in DOMAIN variants :
                   random_value < 2 * CumulativeWeight(variants, i) }
    IN  IF hit # {}
        THEN variants[CHOOSE i \in hit : \A j \in hit : i <= j].name
        ELSE variants[Len(variants)].name

\* _select_variant_by_weight for the draw random_value (in half thousandths)
SelectVariantByWeight(variants, random_value) ==
    LET hit == { i \in DOMAIN variants :
                   random_value <= 2 * CumulativeWeight(variants, i) }
    IN  IF hit # {}
        THEN variants[CHOOSE i \in hit : \A j \in hit : i <= j].name
        ELSE variants[Len(variants)].name

\* an assign check that only rejects draft experiments
AssignUnlessDraft(id) == Exists(id) /\ experiments[id].status # DRAFT

\* assign_user_to_variant: the checks of lines 685-690
AssignAllowed(id) == Exists(id) /\ experiments[id].status = RUNNING

\* assign_user_to_variant is called: _get_experiment and the status check
AssignBegin(c, id, user) ==
    /\ assignCall[c].pc = "idle"
    /\ assignCall' = [assignCall EXCEPT ![c] =
          IF AssignAllowed(id)
          THEN [IdleAssign EXCEPT !.pc = "lookup", !.experiment_id = id, !.user_id = user]
          ELSE [IdleAssign EXCEPT !.pc = "returned", !.experiment_id = id,
                                  !.user_id = user, !.status = "error"]]
    /\ UNCHANGED <<otherAssignVars, assignments, assignCache>>

\* assign_user_to_variant: _get_user_assignment (fetchone of the open rows)
AssignLookup(c) ==
    /\ assignCall[c].pc = "lookup"
    /\ LET open == OpenAssignments(assignCall[c].experiment_id, assignCall[c].user_id)
       IN  IF open # {}
           THEN \E r \in open :
                  assignCall' = [assignCall EXCEPT ![c].pc = "returned",
                                                   ![c].variant_name = r.variant_name,
                                                   ![c].status = "already_assigned"]
           ELSE assignCall' = [assignCall EXCEPT ![c].pc = "select"]
    /\ UNCHANGED <<otherAssignVars, assignments, assignCache>>

\* assign_user_to_variant: _get_experiment_variants and
\* _select_variant_by_weight (an empty list, the experiment being gone, raises)
AssignSelect(c) ==
    /\ assignCall[c].pc = "select"
    /\ LET id == assignCall[c].experiment_id
       IN  IF Exists(id)
           THEN \E d \in DrawPoints(experiments[id].variants) :
                  assignCall' = [assignCall EXCEPT
                      ![c].pc = "record",
                      ![c].variant_name = SelectVariantByWeight(experiments[id].variants, d)]
           ELSE assignCall' = [assignCall EXCEPT ![c].pc = "returned",
                                                 ![c].status = "error"]
    /\ UNCHANGED <<otherAssignVars, assignments, assignCache>>

\* _record_assignment: a plain INSERT into ab_assignments, whose only
\* constraints are the primary key id and the reference to ab_experiments
RecordAssignment(id, user, variant) ==
    assignments (+) SetToBag({AssignmentRow(id, user, variant)})

\* assign_user_to_variant: _record_assignment
AssignRecord(c) ==
    /\ assignCall[c].pc = "record"
    /\ LET id == assignCall[c].experiment_id
       IN  IF Exists(id)
           THEN /\ assignments' = RecordAssignment(id, assignCall[c].user_id,
                                                   assignCall[c].variant_name)
                /\ assignCall' = [assignCall EXCEPT ![c].pc = "cache"]
           ELSE /\ assignCall' = [assignCall EXCEPT ![c].pc = "returned",
                                                    ![c].status = "error"]
                /\ UNCHANGED assignments
    /\ UNCHANGED <<otherAssignVars, assignCache>>

\* assign_user_to_variant: redis setex of the cache key, and return
AssignCache(c) ==
    /\ assignCall[c].pc = "cache"
    /\ assignCache' = [k \in DOMAIN assignCache \cup
                             {<<assignCall[c].experiment_id, assignCall[c].user_id>>} |->
                         IF k = <<assignCall[c].experiment_id, assignCall[c].user_id>>
                         THEN assignCall[c].variant_name ELSE assignCache[k]]
    /\ assignCall' = [assignCall EXCEPT ![c].pc = "returned", ![c].status = "assigned"]
    /\ UNCHANGED <<otherAssignVars, assignments>>

\* ---------------------------------------------- metric aggregation pipeline
otherEventVars == <<experiments, unusedIds, results, statsStore, assignCache, tasks, now,
                    reply, assignCall>>

MetricKey(call) == <<call.experiment_id, call.variant_name, call.metrics[call.m].name>>

\* where track_event starts on a metric of the given type
FirstStep(type) ==
    IF type \in {NUMERICAL, RATE, BINARY} THEN "hget_sum" ELSE "hincrby"

\* track_event: the loop over metrics moves to the next metric, or on to the
\* INSERT INTO ab_events
NextMetric(call) ==
    IF call.m < Len(call.metrics)
    THEN [call EXCEPT !.m = call.m + 1, !.pc = FirstStep(call.metrics[call.m + 1].type)]
    ELSE [call EXCEPT !.pc = "insert"]

\* a track_event that counts the event before it looks for the experiment
TrackCountingFirst(c, id, user, variant, name, value) ==
    /\ eventCall[c].pc = "idle"
    /\ metricStore' = HSet(<<id, variant, name>>, "count",
                           HGet(<<id, variant, name>>, "count") + 1)
    /\ eventCall' = [eventCall EXCEPT ![c] =
          IF Exists(id)
          THEN NextMetric([IdleEvent EXCEPT !.experiment_id = id, !.user_id = user,
                             !.variant_name = variant, !.event_name = name,
                             !.event_value = value,
                             !.metrics = experiments[id].metrics])
          ELSE [IdleEvent EXCEPT !.pc = "returned", !.experiment_id = id,
                                 !.user_id = user, !.variant_name = variant,
                                 !.event_name = name, !.event_value = value,
                                 !.status = "error"]]
    /\ UNCHANGED <<otherEventVars, assignments, events>>

\* track_event is called: _get_experiment and json.loads(experiment['metrics'])
TrackBegin(c, id, user, variant, name, value) ==
    /\ eventCall[c].pc = "idle"
    /\ eventCall' = [eventCall EXCEPT ![c] =
          IF Exists(id)
          THEN NextMetric([IdleEvent EXCEPT !.experiment_id = id, !.user_id = user,
                             !.variant_name = variant, !.event_name = name,
                             !.event_value = value,
                             !.metrics = experiments[id].metrics])
          ELSE [IdleEvent EXCEPT !.pc = "returned", !.experiment_id = id,
                                 !.user_id = user, !.variant_name = variant,
                                 !.event_name = name, !.event_value = value,
                                 !.status = "error"]]
    /\ UNCHANGED <<otherEventVars, assignments, events, metricStore>>

\* track_event: current_sum = float(hget(metric_key, 'sum') or 0)
TrackHGetSum(c) ==
    /\ eventCall[c].pc = "hget_sum"
    /\ eventCall' = [eventCall EXCEPT ![c].current_sum = HGet(MetricKey(eventCall[c]), "sum"),
                                      ![c].pc = "hget_count"]
    /\ UNCHANGED <<otherEventVars, assignments, events, metricStore>>

\* track_event: current_count = int(hget(metric_key, 'count') or 0)
TrackHGetCount(c) ==
    /\ eventCall[c].pc = "hget_count"
    /\ eventCall' = [eventCall EXCEPT
                       ![c].current_count = HGet(MetricKey(eventCall[c]), "count"),
                       ![c].pc = "hset_sum"]
    /\ UNCHANGED <<otherEventVars, assignments, events, metricStore>>

\* the value track_event writes to the field 'sum'
NewSum(call) == call.current_sum + call.event_value

\* the value track_event writes to the field 'count'
NewCount(call) == call.current_count + 1

\* track_event: hset(metric_key, 'sum', current_sum + event_value)
TrackHSetSum(c) ==
    /\ eventCall[c].pc = "hset_sum"
    /\ metricStore' = HSet(MetricKey(eventCall[c]), "sum", NewSum(eventCall[c]))
    /\ eventCall' = [eventCall EXCEPT ![c].pc = "hset_count"]
    /\ UNCHANGED <<otherEventVars, assignments, events>>

\* track_event: hset(metric_key, 'count', current_count + 1); a binary metric
\* is done here, a numerical or rate metric goes on to squared_sum
TrackHSetCount(c) ==
    /\ eventCall[c].pc = "hset_count"
    /\ metricStore' = HSet(MetricKey(eventCall[c]), "count", NewCount(eventCall[c]))
    /\ eventCall' = [eventCall EXCEPT ![c] =
          IF eventCall[c].metrics[eventCall[c].m].type = BINARY
          THEN NextMetric(eventCall[c])
          ELSE [eventCall[c] EXCEPT !.pc = "hget_squared_sum"]]
    /\ UNCHANGED <<otherEventVars, assignments, events>>

\* track_event: current_squared_sum = float(hget(metric_key, 'squared_sum') or 0)
TrackHGetSquaredSum(c) ==
    /\ eventCall[c].pc = "hget_squared_sum"
    /\ eventCall' = [eventCall EXCEPT
                       ![c].current_squared_sum = HGet(MetricKey(eventCall[c]), "squared_sum"),
                       ![c].pc = "hset_squared_sum"]
    /\ UNCHANGED <<otherEventVars, assignments, events, metricStore>>

\* track_event: hset(metric_key, 'squared_sum', current_squared_sum + event_value ** 2)
TrackHSetSquaredSum(c) ==
    /\ eventCall[c].pc = "hset_squared_sum"
    /\ metricStore' = HSet(MetricKey(eventCall[c]), "squared_sum",
                           eventCall[c].current_squared_sum
                             + eventCall[c].event_value * eventCall[c].event_value)
    /\ eventCall' = [eventCall EXCEPT ![c] = NextMetric(eventCall[c])]
    /\ UNCHANGED <<otherEventVars, assignments, events>>

\* track_event: hincrby(category_key, str(event_value), 1)
TrackHIncrBy(c) ==
    /\ eventCall[c].pc = "hincrby"
    /\ LET call == eventCall[c]
           key == <<call.experiment_id, call.variant_name, call.metrics[call.m].name,
                    "categories">>
       IN  metricStore' = HSet(key, call.event_value, HGet(key, call.event_value) + 1)
    /\ eventCall' = [eventCall EXCEPT ![c] = NextMetric(eventCall[c])]
    /\ UNCHANGED <<otherEventVars, assignments, events>>

EventRow(call) ==
    [experiment_id |-> call.experiment_id, user_id |-> call.user_id,
     variant_name |-> call.variant_name, event_name |-> call.event_name]

\* track_event: INSERT INTO ab_events (the row references ab_experiments, so
\* the insert fails once the experiment is gone), then return unless the
\* event is a completion event
TrackInsertEvent(c) ==
    /\ eventCall[c].pc = "insert"
    /\ IF Exists(eventCall[c].experiment_id)
       THEN /\ events' = events (+) SetToBag({EventRow(eventCall[c])})
            /\ eventCall' = [eventCall EXCEPT ![c] =
                  IF eventCall[c].event_name = "experiment_completed"
                  THEN [eventCall[c] EXCEPT !.pc = "mark"]
                  ELSE [eventCall[c] EXCEPT !.pc = "returned", !.status = "tracked"]]
       ELSE /\ eventCall' = [eventCall EXCEPT ![c].pc = "returned", ![c].status = "error"]
            /\ UNCHANGED events
    /\ UNCHANGED <<otherEventVars, assignments, metricStore>>

\* a completion that closes the assignments of every user of the experiment
MarkExperimentCompleted(id, user) ==
    LET done(r) == IF r.experiment_id = id THEN [r EXCEPT !.completed = TRUE] ELSE r
        rows == { done(r) : r \in BagToSet(assignments) }
        copies(n) == { r \in BagToSet(assignments) : done(r) = n }
        RECURSIVE Total(_)
        Total(S) == IF S = {} THEN 0
                    ELSE LET r == CHOOSE x \in S : TRUE
                         IN  assignments[r] + Total(S \ {r})
    IN  [n \in rows |-> Total(copies(n))]

\* _mark_assignment_completed: UPDATE ab_assignments SET completed_at = now
\* WHERE experiment_id = .. AND user_id = .. AND completed_at IS NULL
MarkAssignmentCompleted(id, user) ==
    LET done(r) == IF r.experiment_id = id /\ r.user_id = user
                   THEN [r EXCEPT !.completed = TRUE] ELSE r
        rows == { done(r) : r \in BagToSet(assignments) }
        copies(n) == { r \in BagToSet(assignments) : done(r) = n }
        RECURSIVE Total(_)
        Total(S) == IF S = {} THEN 0
                    ELSE LET r == CHOOSE x \in S : TRUE
                         IN  assignments[r] + Total(S \ {r})
    IN  [n \in rows |-> Total(copies(n))]

\* track_event: _mark_assignment_completed, and return
TrackMarkCompleted(c) ==
    /\ eventCall[c].pc = "mark"
    /\ assignments' = MarkAssignmentCompleted(eventCall[c].experiment_id,
                                              eventCall[c].user_id)
    /\ eventCall' = [eventCall EXCEPT ![c].pc = "returned", ![c].status = "tracked"]
    /\ UNCHANGED <<otherEventVars, events, metricStore>>

\* ------------------------------------------------------- specifications
Create == \E data \in ExperimentData : CreateExperiment(data)
Start == \E id \in ExpIds : StartExperiment(id)
Pause == \E id \in ExpIds : PauseExperiment(id)
Resume == \E id \in ExpIds : ResumeExperiment(id)
Complete == \E id \in ExpIds : CompleteExperiment(id)
Delete == \E id \in ExpIds : DeleteExperiment(id)
LoopTop == \E t \in TaskIds : SchedulerTop(t)
Process == \E t \in TaskIds : SchedulerProcess(t)
EndCheck == \E t \in TaskIds : SchedulerEndCheck(t)
Wake == \E t \in TaskIds : SchedulerWake(t)

\* The lifecycle manager and the scheduler tasks.
NextLifecycle ==
    \/ Create \/ Start \/ Pause \/ Resume \/ Complete \/ Delete
    \/ LoopTop \/ Process \/ EndCheck \/ Wake
    \/ AdvanceClock

SpecLifecycle == Init /\ [][NextLifecycle]_vars

Assign == \E c \in AssignCallers, id \in ExpIds, user \in Users : AssignBegin(c, id, user)
Lookup == \E c \in AssignCallers : AssignLookup(c)
Select == \E c \in AssignCallers : AssignSelect(c)
Record == \E c \in AssignCallers : AssignRecord(c)
Cache == \E c \in AssignCallers : AssignCache(c)

Track == \E c \in EventCallers, id \in ExpIds, user \in Users, variant \in VariantNames,
            name \in EventNames, value \in EventValues :
            TrackBegin(c, id, user, variant, name, value)
HGetSum == \E c \in EventCallers : TrackHGetSum(c)
HGetCount == \E c \in EventCallers : TrackHGetCount(c)
HSetSum == \E c \in EventCallers : TrackHSetSum(c)
HSetCount == \E c \in EventCallers : TrackHSetCount(c)
HGetSquaredSum == \E c \in EventCallers : TrackHGetSquaredSum(c)
HSetSquaredSum == \E c \in EventCallers : TrackHSetSquaredSum(c)
HIncrBy == \E c \in EventCallers : TrackHIncrBy(c)
InsertEvent == \E c \in EventCallers : TrackInsertEvent(c)
MarkCompleted == \E c \in EventCallers : TrackMarkCompleted(c)

TrackSteps ==
    \/ Track \/ HGetSum \/ HGetCount \/ HSetSum \/ HSetCount
    \/ HGetSquaredSum \/ HSetSquaredSum \/ HIncrBy \/ InsertEvent \/ MarkCompleted

\* Concurrent event ingestion against the Metric Store.
NextEvents == Create \/ Delete \/ TrackSteps

SpecEvents == Init /\ [][NextEvents]_vars

AssignSteps == Assign \/ Lookup \/ Select \/ Record \/ Cache

\* The experiment of the assignment runs: two arms, one binary primary metric.
TwoArmData ==
    [has_required_fields |-> TRUE,
     variants |-> << Variant("A", 300), Variant("B", 705) >>,
     metrics |-> << Metric("conversion", BINARY, TRUE) >>,
     end_date |-> NoDate]

CreateTwoArm == CreateExperiment(TwoArmData)

\* a user's end-of-funnel event
TrackCompletion ==
    \E id \in ExpIds, user \in Users :
        TrackBegin("t1", id, user, "A", "experiment_completed", 1)

\* The assignment engine under lifecycle changes and completion events.  The
\* scheduler tasks spawned here never run: they touch neither ab_assignments
\* nor the Redis hashes, and their only write to ab_experiments would be the
\* status change that Complete makes.
NextAssign ==
    \/ CreateTwoArm \/ Start \/ Pause \/ Resume \/ Complete \/ Delete
    \/ AssignSteps
    \/ TrackCompletion \/ HGetSum \/ HGetCount \/ HSetSum \/ HSetCount
    \/ InsertEvent \/ MarkCompleted

SpecAssign == Init /\ [][NextAssign]_vars

\* assign calls that do not overlap: a call starts when no other is in flight
AssignSerially ==
    /\ \A c \in AssignCallers : assignCall[c].pc \in {"idle", "returned"}
    /\ Assign

NextAssignSerial ==
    \/ CreateTwoArm \/ Start \/ Pause \/ Resume \/ Complete \/ Delete
    \/ AssignSerially \/ Lookup \/ Select \/ Record \/ Cache
    \/ TrackCompletion \/ HGetSum \/ HGetCount \/ HSetSum \/ HSetCount
    \/ InsertEvent \/ MarkCompleted

SpecAssignSerial == Init /\ [][NextAssignSerial]_vars

\* The experiment of the aggregation runs: two arms, one numerical metric.
RevenueData ==
    [has_required_fields |-> TRUE,
     variants |-> << Variant("A", 500), Variant("B", 500) >>,
     metrics |-> << Metric("revenue", NUMERICAL, TRUE) >>,
     end_date |-> NoDate]

CreateRevenue == CreateExperiment(RevenueData)

\* one caller records, call after call, the values 1, 2, .. SeriesLength for
\* each variant
TrackSeries ==
    \E id \in ExpIds, variant \in VariantNames :
        /\ Exists(id)
        /\ HGet(<<id, variant, "revenue">>, "count") < SeriesLength
        /\ TrackBegin("t1", id, "u1", variant, "conversion",
                      HGet(<<id, variant, "revenue">>, "count") + 1)

\* the caller has its acknowledgment and is free for its next call
TrackAgain ==
    /\ eventCall["t1"].pc = "returned"
    /\ eventCall' = [eventCall EXCEPT !["t1"] = IdleEvent]
    /\ UNCHANGED <<otherEventVars, assignments, events, metricStore>>

\* Event after event from one caller into the counters of one experiment.
NextAggregation ==
    \/ CreateRevenue \/ TrackSeries \/ TrackAgain
    \/ HGetSum \/ HGetCount \/ HSetSum \/ HSetCount
    \/ HGetSquaredSum \/ HSetSquaredSum \/ InsertEvent

SpecAggregation == Init /\ [][NextAggregation]_vars

TopFails == \E t \in TaskIds : SchedulerTopFails(t)

\* The lifecycle manager and the scheduler tasks on a store whose calls can
\* fail.
NextFaults == NextLifecycle \/ TopFails

SpecFaults == Init /\ [][NextFaults]_vars

\* An experiment that is created, started and then left to its scheduler task
\* (no pause, resume, complete or delete).  The event loop runs every task
\* that is ready, asyncio.sleep returns, and time passes.
NextAutoComplete ==
    \/ Create \/ Start
    \/ LoopTop \/ Process \/ EndCheck \/ Wake
    \/ AdvanceClock

SpecAutoComplete ==
    /\ Init /\ [][NextAutoComplete]_vars
    /\ WF_vars(LoopTop) /\ WF_vars(Process) /\ WF_vars(EndCheck) /\ WF_vars(Wake)
    /\ WF_vars(AdvanceClock)

\* -------------------------------------------------------------- properties
LiveTasks(id) == { t \in TaskIds : tasks[t].pc # "free" /\ tasks[t].experiment_id = id }

OpenCount(id, user) ==
    BagCardinality([r \in OpenAssignments(id, user) |-> assignments[r]])

PairHasCompleted(id, user) ==
    \E r \in BagToSet(assignments) :
        r.experiment_id = id /\ r.user_id = user /\ r.completed

\* the assign calls of a pair that returned a variant
Answered(id, user) ==
    { c \in AssignCallers :
        /\ assignCall[c].pc = "returned"
        /\ assignCall[c].status \in {"assigned", "already_assigned"}
        /\ assignCall[c].experiment_id = id
        /\ assignCall[c].user_id = user }

\* C1: concurrent assign calls for one (experiment, user) pair all return the
\* same variant, and in every state the pair has at most one open
\* (completed_at IS NULL) assignment row.
C1_IdempotentAssignment ==
    \A id \in ExpIds, user \in Users :
        /\ OpenCount(id, user) <= 1
        /\ ~PairHasCompleted(id, user) =>
              \A c1, c2 \in Answered(id, user) :
                  assignCall[c1].variant_name = assignCall[c2].variant_name

\* C2: between start and deletion, any two successful assign calls for the
\* same (experiment, user) return the same variant, whatever events and
\* lifecycle operations come between them.
C2_AssignmentImmutable ==
    \A id \in ExpIds, user \in Users :
        \A c1, c2 \in Answered(id, user) :
            assignCall[c1].variant_name = assignCall[c2].variant_name

Looping(t) == tasks[t].pc \in {"process", "endcheck", "sleep"}

\* C3: an experiment never has two scheduler tasks looping for it (two tasks
\* that both passed the status check at the loop top).
C3_OneSchedulerTask ==
    \A t1, t2 \in TaskIds :
        (t1 # t2 /\ Looping(t1) /\ Looping(t2))
            => tasks[t1].experiment_id # tasks[t2].experiment_id

\* C4: a scheduler task runs its materialize + significance pass only while
\* the experiment is running: once pause or complete has returned, a tick that
\* already passed the loop-top check does no work.
C4_NoWorkAfterCancellation ==
    [][\A t \in TaskIds :
          (tasks[t].pc = "process" /\ tasks'[t].pc = "endcheck")
              => StatusOf(tasks[t].experiment_id) = RUNNING]_vars

RECURSIVE SumValues(_)
SumValues(calls) ==
    IF calls = {} THEN 0
    ELSE LET c == CHOOSE x \in calls : TRUE
         IN  eventCall[c].event_value + SumValues(calls \ {c})

Tracked(id, variant) ==
    { c \in EventCallers :
        /\ eventCall[c].pc = "returned"
        /\ eventCall[c].status = "tracked"
        /\ eventCall[c].experiment_id = id
        /\ eventCall[c].variant_name = variant }

NoEventInFlight == \A c \in EventCallers : eventCall[c].pc \in {"idle", "returned"}

\* C5: once the recordEvent calls for one (experiment, variant, numerical
\* metric) have all returned, the Metric Store holds count = number of calls
\* and sum = the sum of their values, whatever their interleaving.
C5_NoLostUpdate ==
    \A id \in ExpIds, variant \in VariantNames :
        (/\ Exists(id)
         /\ NoEventInFlight
         /\ experiments[id].metrics[1].type = NUMERICAL)
        => LET key == <<id, variant, experiments[id].metrics[1].name>>
           IN  /\ HGet(key, "count") = Cardinality(Tracked(id, variant))
               /\ HGet(key, "sum") = SumValues(Tracked(id, variant))

\* C6: once an experiment is completed or cancelled, every step either
\* deletes it or leaves its status as it is.
C6_TerminalAbsorbing ==
    [][\A id \in ExpIds :
          StatusOf(id) \in {COMPLETED, CANCELLED}
              => (id \notin DOMAIN experiments'
                  \/ experiments'[id].status = StatusOf(id))]_vars

C6_Witness ==
    /\ StatusOf("e1") = COMPLETED
    /\ reply \in {Reply("start", "e1", FALSE), Reply("pause", "e1", FALSE),
                  Reply("resume", "e1", FALSE)}

\* C7: complete(id) on an existing experiment that is not running or paused
\* (draft, completed, cancelled) does not report success and leaves the
\* status unchanged.
C7_CompleteOnlyFromActive ==
    [][(reply'.op = "complete" /\ reply' # reply
          /\ Exists(reply'.experiment_id)
          /\ StatusOf(reply'.experiment_id) \notin {RUNNING, PAUSED})
          => (~reply'.ok /\ experiments' = experiments)]_vars

\* C8: start(id) succeeds exactly when the status is draft, and then sets it
\* to running and spawns one scheduler task; otherwise it fails, the status
\* is unchanged and no task is spawned.
C8_StartOnlyFromDraft ==
    [][(reply'.op = "start" /\ reply' # reply)
          => LET id == reply'.experiment_id
             IN  IF StatusOf(id) = DRAFT
                 THEN /\ reply'.ok
                      /\ experiments'[id].status = RUNNING
                      /\ Cardinality({ t \in TaskIds : tasks'[t].pc # "free" })
                           = Cardinality({ t \in TaskIds : tasks[t].pc # "free" }) + 1
                 ELSE /\ ~reply'.ok
                      /\ experiments' = experiments
                      /\ tasks' = tasks]_vars

C8_Witness ==
    /\ reply = Reply("start", "e1", FALSE)
    /\ StatusOf("e1") \in {RUNNING, PAUSED, COMPLETED}
    /\ LiveTasks("e1") # {}

\* C9: an assign call fails at once unless the experiment is running when the
\* call is made, and then it inserts no assignment row, neither in that step
\* nor later (a returned call does nothing more); a call made on a running
\* experiment passes the check.
C9_AssignRequiresRunning ==
    [][\A c \in AssignCallers :
          /\ (assignCall[c].pc = "idle" /\ assignCall'[c].pc # "idle")
                => IF StatusOf(assignCall'[c].experiment_id) = RUNNING
                   THEN assignCall'[c].pc = "lookup"
                   ELSE /\ assignCall'[c].pc = "returned"
                        /\ assignCall'[c].status = "error"
                        /\ assignments' = assignments
          /\ assignCall[c].pc = "returned" => assignCall'[c] = assignCall[c]]_vars

C9_Witness ==
    \E c \in AssignCallers :
        /\ assignCall[c].pc = "returned"
        /\ assignCall[c].status = "error"
        /\ StatusOf(assignCall[c].experiment_id) = PAUSED
        /\ BagToSet(assignments) # {}

CreationInvariants(e) ==
    /\ Len(e.variants) >= 2
    /\ Len(e.metrics) >= 1
    /\ Abs(SumWeights(e.variants) - 1000) <= 10

\* C10: every persisted experiment has at least 2 variants, at least 1 metric
\* and weights summing to 1.0 within 0.01; a failing create persists nothing
\* and a successful create persists one new experiment with status draft.
C10_CreationInvariants ==
    /\ [](\A id \in DOMAIN experiments : CreationInvariants(experiments[id]))
    /\ [][(reply'.op = "create" /\ reply' # reply)
            => IF reply'.ok
               THEN /\ DOMAIN experiments' = DOMAIN experiments \cup {reply'.experiment_id}
                    /\ reply'.experiment_id \notin DOMAIN experiments
                    /\ experiments'[reply'.experiment_id].status = DRAFT
                    /\ \A id \in DOMAIN experiments : experiments'[id] = experiments[id]
               ELSE experiments' = experiments]_vars

C10_Witness ==
    /\ reply = Reply("create", "e1", TRUE)
    /\ StatusOf("e1") = DRAFT
    /\ SumWeights(experiments["e1"].variants) # Unit

\* C11: a successful create leaves the Metric Store as it was, and while the
\* new experiment is in draft and no event was recorded for it the Metric
\* Store holds no key of the experiment.
C11_CreateLeavesMetricStore ==
    [][(reply'.op = "create" /\ reply'.ok /\ reply' # reply)
          => /\ metricStore' = metricStore
             /\ \A k \in DOMAIN metricStore' : k[1] # reply'.experiment_id]_vars

\* C12: right after a successful start every (variant, metric) pair of the
\* experiment has its Metric Store counters sum, count and squared_sum, all
\* zero, whatever was done to the experiment while it was in draft.
C12_StartZeroesCounters ==
    [][(reply'.op = "start" /\ reply'.ok /\ reply' # reply)
          => \A k \in MetricKeys(reply'.experiment_id) :
                /\ k \in DOMAIN metricStore'
                /\ metricStore'[k] = ZeroCounters]_vars

\* C13: a pause or resume call, successful or not, leaves every Metric Store
\* key and value as it was.
C13_PauseResumeKeepCounters ==
    [][(reply'.op \in {"pause", "resume"} /\ reply' # reply)
          => metricStore' = metricStore]_vars

\* start, pause, resume and pause again, on counters that hold an event
C13_Witness ==
    /\ reply = Reply("pause", "e1", TRUE)
    /\ Cardinality(LiveTasks("e1")) = 2
    /\ HGet(<<"e1", "A", "conversion">>, "count") > 0

\* the Result row that one aggregation pass writes for the key k
Materialized(k, store) ==
    LET hash == IF k \in DOMAIN store THEN store[k] ELSE <<>>
    IN  [metric_value |-> IF Field(hash, "count") = 0 THEN 0
                          ELSE (Field(hash, "sum") * Unit) \div Field(hash, "count"),
         sample_size |-> Field(hash, "count")]

RowReflects(k, rows, store) ==
    \E r \in RowsOf(rows, k) :
        /\ r.metric_value = Materialized(k, store).metric_value
        /\ r.sample_size = Materialized(k, store).sample_size

\* C14: the step that completes a running or paused experiment leaves, for
\* every (variant, metric) pair that has recorded events, a Result row that
\* reflects the counters of that moment.
C14_FinalPassOnCompletion ==
    [][\A id \in ExpIds :
          (StatusOf(id) \in {RUNNING, PAUSED}
             /\ id \in DOMAIN experiments' /\ experiments'[id].status = COMPLETED)
          => \A k \in MetricKeys(id) :
                HGet(k, "count") > 0 => RowReflects(k, results', metricStore)]_vars

\* what is left of an experiment in the stores
Remains(id) ==
    \/ Exists(id)
    \/ \E r \in BagToSet(assignments) \cup BagToSet(events) : r.experiment_id = id
    \/ \E r \in results : r.experiment_id = id
    \/ \E k \in DOMAIN metricStore \cup DOMAIN assignCache : k[1] = id
    \/ id \in DOMAIN statsStore

\* C15: delete of an experiment succeeds whatever its status, and when it
\* has returned no Experiment, Assignment, Event or Result record and no
\* Metric Store key of the experiment is left.
C15_DeleteCascades ==
    [][\A id \in ExpIds :
          (Exists(id) /\ reply'.op = "delete" /\ reply'.experiment_id = id
             /\ reply' # reply)
             => (reply'.ok /\ ~Remains(id)')]_vars

\* C16: a running experiment whose end_date has been reached is eventually
\* completed by its scheduler task, which then has left its loop.
C16_AutoCompletion ==
    \A id \in ExpIds :
        (/\ StatusOf(id) = RUNNING
         /\ experiments[id].end_date # NoDate
         /\ now >= experiments[id].end_date)
        ~> (StatusOf(id) = COMPLETED /\ LiveTasks(id) = {})

\* C17: a scheduler task ends only when its experiment is not found or not
\* running: while the experiment exists and is running, no failure of a
\* store call during a tick ends the task.
C17_TaskSurvivesTickErrors ==
    [][\A t \in TaskIds :
          (tasks[t].pc # "free" /\ tasks'[t].pc = "free")
              => StatusOf(tasks[t].experiment_id) # RUNNING]_vars

\* the calls that have started
Started == { c \in EventCallers : eventCall[c].pc # "idle" }

\* C18: when one recordEvent with value v has returned and no other was
\* made, every numerical, rate or binary metric of the experiment has, for
\* the event's variant, sum = v, count = 1 and squared_sum = v * v.
C18_BinaryLikeNumerical ==
    \A c \in EventCallers :
        (/\ Started = {c}
         /\ eventCall[c].pc = "returned" /\ eventCall[c].status = "tracked"
         /\ Exists(eventCall[c].experiment_id))
        => \A m \in Range(experiments[eventCall[c].experiment_id].metrics) :
              m.type \in {NUMERICAL, RATE, BINARY}
              => LET key == <<eventCall[c].experiment_id, eventCall[c].variant_name, m.name>>
                     v == eventCall[c].event_value
                 IN  /\ HGet(key, "sum") = v
                     /\ HGet(key, "count") = 1
                     /\ HGet(key, "squared_sum") = v * v

\* C19: a materialize pass of a scheduler task leaves, for every (variant,
\* metric) pair of the experiment with a numerical, binary or rate metric, a
\* Result row with value sum / count (0 when count is 0) and sample_size
\* count of the current counters.
C19_MaterializePersistsRows ==
    [][\A t \in TaskIds :
          (tasks[t].pc = "process" /\ tasks'[t].pc = "endcheck"
             /\ Exists(tasks[t].experiment_id))
          => \A k \in MetricKeys(tasks[t].experiment_id) :
                GetMetricType(k[1], k[3]) \in {NUMERICAL, BINARY, RATE}
                => RowReflects(k, results', metricStore)]_vars

\* sum_of_squares / count - mean^2, clamped at 0, in thousandths
SampleVariance(hash) ==
    LET n == Field(hash, "count")
        mean == (Field(hash, "sum") * Unit) \div n
        v == (Field(hash, "squared_sum") * Unit) \div n - (mean * mean) \div Unit
    IN  IF v < 0 THEN 0 ELSE v

\* the counters after the values 1, 2, 3, 4, 5
AfterOneToFive(hash) ==
    /\ Field(hash, "count") = 5
    /\ Field(hash, "sum") = 15
    /\ Field(hash, "squared_sum") = 55

\* C20: once the values 1, 2, 3, 4, 5 are recorded for one (variant, metric),
\* its mean is 3, its sample size 5, and the variance that the significance
\* test uses for it is sum_of_squares / count - mean^2 = 2.
C20_VarianceFromSums ==
    \A k \in DOMAIN metricStore :
        AfterOneToFive(metricStore[k])
        => /\ CalculateMetricValue(metricStore[k], NUMERICAL) = 3 * Unit
           /\ Field(metricStore[k], "count") = 5
           /\ SampleVariance(metricStore[k]) = 2 * Unit
           /\ VarianceUsed(metricStore[k]) = SampleVariance(metricStore[k])

\* ------------------------------------------------- the significance pass
\* the counters of a binary metric after count events, sum of them with the
\* value 1 (the binary branch of track_event leaves squared_sum alone)
Traffic ==
    { [sum |-> c[1], count |-> c[2], squared_sum |-> 0] :
        c \in { <<0, 0>>, <<0, 1>>, <<1, 1>>, <<30, 100>>, <<60, 100>> } }

\* the ab_results row of the key k that a pass over the counters hash
\* persists at time 0
RowFrom(k, hash) ==
    [experiment_id |-> k[1], variant_name |-> k[2], metric_name |-> k[3],
     metric_value |-> CalculateMetricValue(hash, BINARY),
     sample_size |-> Field(hash, "count"),
     calculated_at |-> 0, p_value |-> NoValue, statistical_significance |-> FALSE]

TwoArmKeys == { <<"e1", v, "conversion">> : v \in VariantNames }

\* The two-arm experiment, started, with traffic recorded in its counters, with
\* or without an ab_results row for each arm, and its scheduler task about
\* to run a tick.
InitSignificance ==
    /\ experiments = "e1" :> [status |-> RUNNING, variants |-> TwoArmData.variants,
                              metrics |-> TwoArmData.metrics, end_date |-> NoDate]
    /\ unusedIds = {}
    /\ assignments = EmptyBag
    /\ events = EmptyBag
    /\ \E present \in SUBSET TwoArmKeys, hash \in [TwoArmKeys -> Traffic] :
          results = { RowFrom(k, hash[k]) : k \in present }
    /\ metricStore \in [TwoArmKeys -> Traffic]
    /\ statsStore = InitializeStats("e1", TwoArmData.variants)
    /\ assignCache = <<>>
    /\ tasks = [t \in TaskIds |->
                  IF t = 1 THEN [pc |-> "top", experiment_id |-> "e1", end_date |-> NoDate]
                  ELSE NoTask]
    /\ now = 0
    /\ reply = Reply("start", "e1", TRUE)
    /\ assignCall = [c \in AssignCallers |-> IdleAssign]
    /\ eventCall = [c \in EventCallers |-> IdleEvent]

NextSignificance == LoopTop \/ Process \/ EndCheck \/ Wake

SpecSignificance == InitSignificance /\ [][NextSignificance]_vars

\* a scheduler task runs its pass over the experiment id in this step
PassOver(id) ==
    \E t \in TaskIds :
        /\ tasks[t].pc = "process" /\ tasks[t].experiment_id = id
        /\ tasks'[t].pc = "endcheck"

\* two variants have at least 100 recorded events each for the metric and
\* means that differ by 0.3 or more
LargeGap(id, metric_name) ==
    \E a, b \in { v.name : v \in Range(experiments[id].variants) } :
        /\ HGet(<<id, a, metric_name>>, "count") >= 100
        /\ HGet(<<id, b, metric_name>>, "count") >= 100
        /\ Materialized(<<id, a, metric_name>>, metricStore).metric_value
             - Materialized(<<id, b, metric_name>>, metricStore).metric_value >= 300

\* the latest ab_results row of the key exists and is marked significant
MarkedSignificant(rows, k) ==
    /\ LatestRows(rows, k) # {}
    /\ \A r \in LatestRows(rows, k) :
          /\ r.statistical_significance = TRUE
          /\ r.p_value # NoValue
          /\ r.p_value < SignificanceLevel

\* C21: one pass of the scheduler over a two-variant experiment whose
\* variants have a large gap of means at large sample sizes (100 events each,
\* rates 0.6 and 0.3) leaves the rows of every primary metric marked
\* significant, with p < 0.05.
C21_LargeGapIsSignificant ==
    [][\A id \in ExpIds :
          (PassOver(id) /\ Exists(id) /\ Len(experiments[id].variants) = 2)
          => \A m \in Range(experiments[id].metrics) :
                (m.is_primary /\ LargeGap(id, m.name))
                => \A v \in Range(experiments[id].variants) :
                      MarkedSignificant(results', <<id, v.name, m.name>>)]_vars

\* the variants whose rows are handed to _perform_statistical_test
EntersTest(rows, id, metric_name) ==
    IF TestRuns(VariantData(rows, id, metric_name))
    THEN DOMAIN VariantData(rows, id, metric_name) ELSE {}

\* the variants whose latest row for the metric has a sample_size of 1 or more
Sampled(rows, id, metric_name) ==
    { v \in DOMAIN VariantData(rows, id, metric_name) :
        VariantData(rows, id, metric_name)[v].sample_size >= 1 }

\* p_value and statistical_significance of the rows of a metric
Verdicts(rows, id, metric_name) ==
    { <<r.variant_name, r.calculated_at, r.p_value, r.statistical_significance>> :
        r \in { x \in rows : x.experiment_id = id /\ x.metric_name = metric_name } }

Collation == <<"A", "B", "conversion", "plan", "revenue">>

Rank(name) == CHOOSE i \in DOMAIN Collation : Collation[i] = name

\* get_experiment_results, lines 895-911: the rows arrive ordered by
\* variant_name, metric_name, calculated_at DESC and each row overwrites the
\* entry that the row before it left for the same variant and metric, so the
\* entry of a key is its row that comes last
LastFetched(rows, k) ==
    { r \in RowsOf(rows, k) : \A o \in RowsOf(rows, k) : r.calculated_at <= o.calculated_at }

\* get_experiment_results, lines 902-911: the entry made of a row
Entry(r) ==
    [value |-> r.metric_value, sample_size |-> r.sample_size, p_value |-> r.p_value,
     statistical_significance |-> r.statistical_significance,
     calculated_at |-> r.calculated_at]

\* the functions that pick one element of candidates[k] for every k
RECURSIVE Picks(_)
Picks(candidates) ==
    IF DOMAIN candidates = {} THEN { <<>> }
    ELSE LET k == CHOOSE x \in DOMAIN candidates : TRUE
         IN  { (k :> r) @@ f : r \in candidates[k],
                               f \in Picks(Restrict(candidates, DOMAIN candidates \ {k})) }

\* get_experiment_results, lines 871-911: formatted_results['results'], variant
\* by variant and metric by metric
FormattedResults(id) ==
    LET mine == { r \in results : r.experiment_id = id }
        keys == { <<id, r.variant_name, r.metric_name>> : r \in mine }
        picks == Picks([k \in keys |-> LastFetched(mine, k)])
        nested(f) == [v \in { k[2] : k \in keys } |->
                        [m \in { k[3] : k \in { x \in keys : x[2] = v } } |->
                            Entry(f[<<id, v, m>>])]]
    IN  { nested(f) : f \in picks }

\* _calculate_improvement of the dict metrics, in whole percent: the first
\* key of the dict against the key of the greatest value
CalculateImprovement(metrics) ==
    LET control_variant == CHOOSE k \in DOMAIN metrics :
                               \A o \in DOMAIN metrics : Rank(k) <= Rank(o)
        control_value == metrics[control_variant].value
        best_value == CHOOSE x \in { metrics[k].value : k \in DOMAIN metrics } :
                          \A k \in DOMAIN metrics : metrics[k].value <= x
    IN  IF control_value = 0 THEN 0
        ELSE ((best_value - control_value) * 100) \div control_value

\* _generate_experiment_summary: one finding per (variant, metric) entry that
\* is marked significant
GenerateExperimentSummary(formatted) ==
    [total_variants |-> Cardinality(DOMAIN formatted),
     total_metrics |-> Cardinality(UNION { DOMAIN formatted[v] : v \in DOMAIN formatted }),
     significant_findings |->
        { [metric |-> m, variant |-> v, improvement |-> CalculateImprovement(formatted[v])] :
            <<v, m>> \in { p \in UNION { {v2} \X DOMAIN formatted[v2] :
                                           v2 \in DOMAIN formatted } :
                             formatted[p[1]][p[2]].statistical_significance = TRUE } }]

\* _generate_experiment_conclusions
LowSampleSize == 1000

RECURSIVE SumSamples(_)
SumSamples(entries) ==
    IF entries = {} THEN 0
    ELSE LET e == CHOOSE x \in entries : TRUE
         IN  e[3].sample_size + SumSamples(entries \ {e})

GenerateExperimentConclusions(formatted, summary) ==
    (IF summary.significant_findings # {} THEN {"significant improvement"}
     ELSE {"no significant differences"})
    \cup
    (IF SumSamples({ <<v, m, formatted[v][m]>> :
                       <<v, m>> \in UNION { {v2} \X DOMAIN formatted[v2] :
                                              v2 \in DOMAIN formatted } }) < LowSampleSize
     THEN {"low sample size"} ELSE {})

\* a results query that also drops the cached assignments of the experiment
GetResultsDroppingCache(id) ==
    /\ reply' = Reply("results", id, Exists(id))
    /\ assignCache' = Restrict(assignCache, { k \in DOMAIN assignCache : k[1] # id })
    /\ UNCHANGED <<repoVars, metricStore, statsStore, tasks, now, assignCall, eventCall>>

\* get_experiment_results: an unknown id raises; otherwise the rows of the
\* experiment are read and formatted
GetExperimentResults(id) ==
    /\ IF Exists(id)
       THEN \E formatted \in FormattedResults(id) :
               reply' = [op |-> "results", experiment_id |-> id, ok |-> TRUE,
                         status |-> experiments[id].status,
                         results |-> formatted,
                         summary |-> GenerateExperimentSummary(formatted),
                         conclusions |-> GenerateExperimentConclusions(
                                            formatted, GenerateExperimentSummary(formatted))]
       ELSE reply' = Reply("results", id, FALSE)
    /\ UNCHANGED <<repoVars, redisVars, tasks, now, assignCall, eventCall>>

Results == \E id \in ExpIds \cup {NoId} : GetExperimentResults(id)

\* The experiment of the results queries: two arms, two metrics.
FunnelData ==
    [has_required_fields |-> TRUE,
     variants |-> << Variant("A", 500), Variant("B", 500) >>,
     metrics |-> << Metric("conversion", BINARY, TRUE), Metric("revenue", NUMERICAL, TRUE) >>,
     end_date |-> NoDate]

FunnelKeys == { <<"e1", v, m>> : v \in VariantNames, m \in {"conversion", "revenue"} }

SnapshotValues == {0, 200, 400}

\* an ab_results row of the key k, calculated at time t from 100 * (t + 1) events
Snapshot(k, t, value, verdict) ==
    [experiment_id |-> k[1], variant_name |-> k[2], metric_name |-> k[3],
     metric_value |-> value, sample_size |-> 100 * (t + 1), calculated_at |-> t,
     p_value |-> IF verdict THEN 10 ELSE Unit, statistical_significance |-> verdict]

\* no row, one row, or an older and a newer row of different values
SnapshotSeries ==
    { <<>> } \cup { <<v>> : v \in SnapshotValues }
             \cup { <<v, w>> : <<v, w>> \in { p \in SnapshotValues \X SnapshotValues :
                                                p[1] # p[2] } }

\* The experiment with its ab_results table holding, for every (variant,
\* metric), the rows of a series (at most one row for revenue); the rows of a
\* metric carry one verdict.
InitResults ==
    /\ experiments = "e1" :> [status |-> RUNNING, variants |-> FunnelData.variants,
                              metrics |-> FunnelData.metrics, end_date |-> NoDate]
    /\ unusedIds = {}
    /\ assignments = EmptyBag
    /\ events = EmptyBag
    /\ \E series \in { f \in [FunnelKeys -> SnapshotSeries] :
                          \A k \in FunnelKeys : k[3] = "revenue" => Len(f[k]) <= 1 },
          verdict \in [{"conversion", "revenue"} -> BOOLEAN] :
          results = UNION { { Snapshot(k, t - 1, series[k][t], verdict[k[3]]) :
                                t \in DOMAIN series[k] } : k \in FunnelKeys }
    /\ metricStore = InitializeMetrics("e1", FunnelData.variants, FunnelData.metrics)
    /\ statsStore = InitializeStats("e1", FunnelData.variants)
    /\ assignCache = <<>>
    /\ tasks = [t \in TaskIds |->
                  IF t = 1 THEN [pc |-> "sleep", experiment_id |-> "e1", end_date |-> NoDate]
                  ELSE NoTask]
    /\ now = 1
    /\ reply = Reply("start", "e1", TRUE)
    /\ assignCall = [c \in AssignCallers |-> IdleAssign]
    /\ eventCall = [c \in EventCallers |-> IdleEvent]

SpecResults == InitResults /\ [][Results]_vars

\* the reply of a results query that succeeded
ResultsReplied(id) == reply.op = "results" /\ reply.experiment_id = id /\ reply.ok

ImprovementOverControl(id, formatted, metric_name) ==
    LET control == experiments[id].variants[1].name
        control_value == formatted[control][metric_name].value
        values == { formatted[v][metric_name].value :
                      v \in { x \in DOMAIN formatted : metric_name \in DOMAIN formatted[x] } }
        best_value == CHOOSE x \in values : \A y \in values : y <= x
    IN  IF control_value = 0 THEN 0
        ELSE ((best_value - control_value) * 100) \div control_value

NextQueries == NextAssignSerial \/ Results

SpecQueries == Init /\ [][NextQueries]_vars

\* C25: a results query, whether it succeeds or fails, leaves every
\* Experiment, Assignment, Event and Result record, every Metric Store key
\* and every scheduler task as it was.
C25_ResultsQueryIsPureRead ==
    [][(reply'.op = "results" /\ reply' # reply)
         => UNCHANGED <<experiments, assignments, events, results, metricStore,
                        statsStore, assignCache, tasks>>]_vars

C25_Witness ==
    /\ ResultsReplied("e1")
    /\ assignments # EmptyBag
    /\ events # EmptyBag
    /\ DOMAIN assignCache # {}
    /\ LiveTasks("e1") # {}

\* ---------------------------------------- assignment on a failing store
\* assign_user_to_variant: the INSERT of _record_assignment raises (the
\* Repository is unavailable); nothing is written and the except branch of
\* lines 722-724 reports the failure
AssignRecordFails(c) ==
    /\ assignCall[c].pc = "record"
    /\ assignCall' = [assignCall EXCEPT ![c].pc = "returned", ![c].status = "error"]
    /\ UNCHANGED <<otherAssignVars, assignments, assignCache>>

\* assign_user_to_variant: the Redis setex of line 713 raises (the Metric
\* Store is unavailable); the except branch of lines 722-724 reports the
\* failure, after _record_assignment has committed its INSERT
AssignCacheFails(c) ==
    /\ assignCall[c].pc = "cache"
    /\ assignCall' = [assignCall EXCEPT ![c].pc = "returned", ![c].status = "error"]
    /\ UNCHANGED <<otherAssignVars, assignments, assignCache>>

RecordFails == \E c \in AssignCallers : AssignRecordFails(c)
CacheFails == \E c \in AssignCallers : AssignCacheFails(c)

\* Assign calls one after the other on stores whose calls can fail.
NextAssignFaults == NextAssignSerial \/ RecordFails \/ CacheFails

SpecAssignFaults == Init /\ [][NextAssignFaults]_vars

\* the call has committed the INSERT of its Assignment row
HasPersisted(c) == assignCall[c].pc = "cache"

\* the call returns in this step, with the given status
Returns(c, status) ==
    /\ assignCall[c].pc # "returned"
    /\ assignCall'[c].pc = "returned" /\ assignCall'[c].status = status

\* C26: assignment is all-or-nothing: a call that reports an error has
\* persisted no Assignment row, and a call that returns a newly assigned
\* variant has persisted a row of exactly that variant.
C26_AssignAllOrNothing ==
    [][\A c \in AssignCallers :
          /\ Returns(c, "error") => ~HasPersisted(c)
          /\ Returns(c, "assigned")
               => \E r \in BagToSet(assignments') :
                     /\ r.experiment_id = assignCall'[c].experiment_id
                     /\ r.user_id = assignCall'[c].user_id
                     /\ r.variant_name = assignCall'[c].variant_name]_vars

\* ----------------------------------------------------- weighted selection
\* The variant lists of the selection runs: two or three variants in order,
\* weights from 0 to 1, sums within the tolerance of the validation.
LadderLists ==
    { << Variant("A", w), Variant("B", 1000 - w) >> : w \in {0, 100, 300, 500, 900, 1000} }
    \cup { << Variant("A", 300), Variant("B", 705) >>,
           << Variant("A", 500), Variant("B", 495) >>,
           << Variant("A", 200), Variant("B", 300), Variant("C", 500) >>,
           << Variant("A", 0), Variant("B", 500), Variant("C", 500) >>,
           << Variant("A", 500), Variant("B", 0), Variant("C", 500) >>,
           << Variant("A", 334), Variant("B", 333), Variant("C", 333) >> }

CreateLadder ==
    \E variants \in LadderLists :
        CreateExperiment([has_required_fields |-> TRUE, variants |-> variants,
                          metrics |-> << Metric("conversion", BINARY, TRUE) >>,
                          end_date |-> NoDate])

\* Assign calls, one after the other, to experiments of every ladder.
NextSelection ==
    \/ CreateLadder \/ Start
    \/ AssignSerially \/ Lookup \/ Select \/ Record \/ Cache

SpecSelection == Init /\ [][NextSelection]_vars

\* the first rung of the ladder that is not below the draw (in half thousandths)
FirstRung(variants, d) ==
    CHOOSE i \in DOMAIN variants :
        /\ 2 * CumulativeWeight(variants, i) >= d
        /\ \A j \in 1..(i - 1) : 2 * CumulativeWeight(variants, j) < d

\* the rungs of the ladder below its top, and 0
Breakpoints(variants) ==
    { b \in {0} \cup { CumulativeWeight(variants, i) : i \in DOMAIN variants } :
        b < CumulativeWeight(variants, Len(variants)) }

\* the measure, in thousandths, of the draws that select the variant name:
\* the selection compares the draw with the rungs only, so it is constant
\* between two neighbouring breakpoints, and the breakpoints have measure 0
RECURSIVE TotalLength(_, _, _)
TotalLength(variants, name, from) ==
    IF from = {} THEN 0
    ELSE LET a == CHOOSE x \in from : TRUE
             above == { b \in Breakpoints(variants)
                               \cup {CumulativeWeight(variants, Len(variants))} : b > a }
             next == CHOOSE b \in above : \A o \in above : b <= o
         IN  (IF SelectVariantByWeight(variants, 2 * a + 1) = name THEN next - a ELSE 0)
             + TotalLength(variants, name, from \ {a})

Measure(variants, name) == TotalLength(variants, name, Breakpoints(variants))

\* the weights of the list go up the ladder: none is negative
LadderAscends(variants) == \A i \in DOMAIN variants : variants[i].weight >= 0

\* C27: for the variants of an experiment in their declared order, with
\* cumulative weights that do not decrease, every draw of [0, total weight)
\* selects the first variant whose cumulative weight is not below the draw,
\* every variant is selected by draws of a measure equal to its weight, and
\* the variant an assign call has selected is a declared variant.
C27_CumulativeLadder ==
    \A id \in DOMAIN experiments :
        LET variants == experiments[id].variants
        IN  LadderAscends(variants)
            => /\ \A d \in DrawPoints(variants) :
                     SelectVariantByWeight(variants, d)
                       = variants[FirstRung(variants, d)].name
               /\ \A v \in Range(variants) : Measure(variants, v.name) = v.weight
               /\ \A c \in AssignCallers :
                     (assignCall[c].experiment_id = id
                        /\ assignCall[c].variant_name # NoVariant)
                     => assignCall[c].variant_name \in { v.name : v \in Range(variants) }

C27_Witness ==
    /\ Exists("e1")
    /\ experiments["e1"].variants
         = << Variant("A", 200), Variant("B", 300), Variant("C", 500) >>
    /\ \E c \in AssignCallers :
          /\ assignCall[c].pc = "returned" /\ assignCall[c].status = "assigned"
          /\ assignCall[c].variant_name = "B"

\* ------------------------------------------- events of several visitors
Visitors == {"u1", "u2"}

OtherId == "e2"

\* A second experiment, running, with an open assignment of each visitor; the
\* experiment of the runs is yet to be created.
InitCompletion ==
    /\ experiments = OtherId :> [status |-> RUNNING, variants |-> TwoArmData.variants,
                                 metrics |-> TwoArmData.metrics, end_date |-> NoDate]
    /\ unusedIds = ExpIds
    /\ assignments = SetToBag({ AssignmentRow(OtherId, u, "A") : u \in Visitors })
    /\ events = EmptyBag
    /\ results = {}
    /\ metricStore = InitializeMetrics(OtherId, TwoArmData.variants, TwoArmData.metrics)
    /\ statsStore = InitializeStats(OtherId, TwoArmData.variants)
    /\ assignCache = [k \in { <<OtherId, u>> : u \in Visitors } |-> "A"]
    /\ tasks = [t \in TaskIds |->
                  IF t = 1 THEN [pc |-> "sleep", experiment_id |-> OtherId, end_date |-> NoDate]
                  ELSE NoTask]
    /\ now = 0
    /\ reply = Reply("start", OtherId, TRUE)
    /\ assignCall = [c \in AssignCallers |-> IdleAssign]
    /\ eventCall = [c \in EventCallers |-> IdleEvent]

\* The experiment of the visitors' runs: two arms, one categorical metric.
PlanData ==
    [has_required_fields |-> TRUE,
     variants |-> << Variant("A", 500), Variant("B", 500) >>,
     metrics |-> << Metric("plan", CATEGORICAL, FALSE) >>,
     end_date |-> NoDate]

CreatePlan == CreateExperiment(PlanData)

\* a visitor without an assignment in the experiment asks for one, when no
\* other assign call is in flight
AssignVisitor ==
    /\ \A c \in AssignCallers : assignCall[c].pc \in {"idle", "returned"}
    /\ \E c \in AssignCallers, id \in ExpIds, user \in Visitors :
          /\ \A r \in BagToSet(assignments) : ~(r.experiment_id = id /\ r.user_id = user)
          /\ AssignBegin(c, id, user)

TrackVisitor ==
    \E c \in EventCallers, id \in ExpIds, user \in Visitors, name \in EventNames :
        TrackBegin(c, id, user, "A", name, 1)

\* Visitors are assigned, one call after the other, and send events, two
\* calls at a time.
NextCompletion ==
    \/ CreatePlan \/ Start
    \/ AssignVisitor \/ Lookup \/ Select \/ Record \/ Cache
    \/ TrackVisitor \/ HIncrBy \/ InsertEvent \/ MarkCompleted

SpecCompletion == InitCompletion /\ [][NextCompletion]_vars

\* the track_event calls that have appended their Event row
Appended == { c \in EventCallers :
                \/ eventCall[c].pc = "mark"
                \/ eventCall[c].pc = "returned" /\ eventCall[c].status = "tracked" }

\* the assignments of the bag after are those of the bag before with the
\* open assignments of the pair closed and every other row as it was
ClosesOnly(before, after, id, user) ==
    LET mine(r) == r.experiment_id = id /\ r.user_id = user
    IN  /\ \A r \in BagToSet(after) : mine(r) => r.completed
        /\ \A r \in BagToSet(before) \cup BagToSet(after) :
              ~mine(r) => CopiesIn(r, after) = CopiesIn(r, before)
        /\ BagCardinality(after) = BagCardinality(before)

\* C28: every track_event call that succeeds has appended exactly one Event
\* row; a step of a call changes the Assignment rows only when the event is
\* named 'experiment_completed', and then it closes the open assignments of
\* the call's user and experiment and leaves every other row as it was; a
\* completion call that has returned has done so.
C28_EventFrame ==
    [][/\ BagCardinality(events') = Cardinality(Appended')
       /\ \A c \in Appended' : BagIn(EventRow(eventCall'[c]), events')
       /\ \A c \in EventCallers :
             eventCall'[c] # eventCall[c]
             => \/ assignments' = assignments
                \/ /\ eventCall[c].event_name = "experiment_completed"
                   /\ ClosesOnly(assignments, assignments',
                                 eventCall[c].experiment_id, eventCall[c].user_id)
       /\ \A c \in EventCallers :
             (eventCall[c].pc = "mark" /\ eventCall'[c].pc = "returned"
                /\ eventCall'[c].status = "tracked")
             => ClosesOnly(assignments, assignments',
                           eventCall[c].experiment_id, eventCall[c].user_id)]_vars

C28_Witness ==
    /\ \E c \in EventCallers :
          /\ eventCall[c].pc = "returned" /\ eventCall[c].status = "tracked"
          /\ eventCall[c].event_name = "experiment_completed"
          /\ eventCall[c].user_id = "u1"
          /\ BagIn([AssignmentRow("e1", "u1", "A") EXCEPT !.completed = TRUE], assignments)
    /\ BagIn(AssignmentRow("e1", "u2", "A"), assignments)
    /\ BagIn(AssignmentRow(OtherId, "u1", "A"), assignments)

\* ------------------------------------------- binary metrics under traffic
BinaryValues == {0, 1}

\* an event of value 0 or 1 for the two-arm experiment
TrackBinary ==
    \E c \in EventCallers, id \in ExpIds, variant \in VariantNames, value \in BinaryValues :
        TrackBegin(c, id, "u1", variant, "conversion", value)

\* Concurrent events of value 0 or 1 on a binary metric, and the scheduler
\* task of the experiment.
NextBinary ==
    \/ CreateTwoArm \/ Start
    \/ TrackBinary \/ HGetSum \/ HGetCount \/ HSetSum \/ HSetCount \/ InsertEvent
    \/ LoopTop \/ Process \/ EndCheck \/ Wake

SpecBinary == Init /\ [][NextBinary]_vars

\* the counters hashes of the binary metrics
BinaryKeys ==
    { k \in DOMAIN metricStore : Exists(k[1]) /\ Len(k) = 3
                                 /\ GetMetricType(k[1], k[3]) = BINARY }

\* C29: while every recorded value of a binary metric is 0 or 1, the counters
\* of each of its (variant, metric) pairs satisfy 0 <= sum <= count in every
\* reachable state, and the value a materialize pass computes from them is
\* between 0 and 1.
C29_BinaryRateInUnitInterval ==
    \A k \in BinaryKeys :
        /\ 0 <= HGet(k, "sum")
        /\ HGet(k, "sum") <= HGet(k, "count")
        /\ CalculateMetricValue(metricStore[k], BINARY) \in 0..Unit

\* the same, of the states in which no track_event call is under way
BinaryRateAtRest ==
    NoEventInFlight => C29_BinaryRateInUnitInterval

\* the track_event call of c is made in this step
Called(c) == eventCall[c].pc = "idle" /\ eventCall'[c].pc # "idle"

\* C30: a track_event call for an experiment id that does not exist returns
\* an error at once and changes nothing: no counter of the Metric Store is
\* created or modified, no Event row is appended and no Assignment row is
\* marked completed.
C30_UnknownExperimentRejected ==
    [][\A c \in EventCallers :
          (Called(c) /\ ~Exists(eventCall'[c].experiment_id))
          => /\ eventCall'[c].pc = "returned"
             /\ eventCall'[c].status = "error"
             /\ UNCHANGED <<metricStore, events, assignments, experiments, results,
                            statsStore, assignCache>>]_vars

C30_Witness ==
    /\ ~Exists("e1")
    /\ \E c \in EventCallers :
          /\ eventCall[c].pc = "returned" /\ eventCall[c].status = "error"
          /\ eventCall[c].experiment_id = "e1"
          /\ eventCall[c].event_name = "experiment_completed"
          /\ BagIn(AssignmentRow(OtherId, eventCall[c].user_id, "A"), assignments)
    /\ DOMAIN metricStore # {}

====
